---- MODULE Spec2Model ----
(***************************************************************************)
(* Two development HTTP servers: spa-server.py (SPAHandler, run_server)    *)
(* and debug_server.py (DebugHTTPRequestHandler, main).  Both handlers     *)
(* extend the standard library's SimpleHTTPRequestHandler; the inherited   *)
(* request parsing, send_head, send_error and header buffering are         *)
(* modelled as the library performs them, because every response of the    *)
(* two programs is produced through them.                                  *)
(*                                                                         *)
(* Three specifications are given:                                         *)
(*   SpecServe  - a running server handling one request after another      *)
(*                over a served directory that may change between          *)
(*                requests;                                                *)
(*   Spec       - one run of a program from its command line to its exit,  *)
(*                with other processes taking and releasing ports;         *)
(*   SpecQuiet  - the same run with no other process touching the ports.   *)
(***************************************************************************)
EXTENDS Integers, Sequences, FiniteSets, TLC

VARIABLES
    \* ---- request handling -------------------------------------------
    fsys,       \* served directory: tracked path -> kind of the entry
    mtime,      \* last-modification time of the regular files
    req,        \* request being answered (NoReq while waiting in accept)
    resp,       \* response produced for req (NoResp while waiting)
    \* ---- program run -------------------------------------------------
    prog,       \* which program runs: "debug" or "spa"
    argv,       \* command line after the program name (sys.argv[1:])
    pc,         \* position of the program
    port,       \* local variable port
    scan,       \* loop variable of find_available_port
    busy,       \* ports held by other processes
    busy0,      \* ports held by other processes when the program started
    cwd,        \* process working directory
    original_dir, \* local variable original_dir of main
    listening,  \* {port of the program's listening socket}, {} without one
    printed,    \* {port shown by the startup information}, {} before it
    exitcode,   \* {process exit status}, {} while the process runs
    hist        \* history of the run: chdir (os.chdir was done), listened,
                \* served (serve_forever entered), env (port changes by
                \* others), touched (ports ever held by others), stop (why
                \* the process ended)

vars == <<fsys, mtime, req, resp, prog, argv, pc, port, scan, busy, busy0,
          cwd, original_dir, listening, printed, exitcode, hist>>

serveVars == <<fsys, mtime, req, resp>>
runVars == <<prog, argv, pc, port, scan, busy, busy0, cwd, original_dir,
             listening, printed, exitcode, hist>>

(***************************************************************************)
(* Bounds of the model.                                                    *)
(***************************************************************************)
\* Longest request path, in segments.
MaxDepth == 2
\* Latest clock value used for file times and If-Modified-Since.
MaxTime == 1
\* Most port changes other processes make during one run.
MaxEnvSteps == 2

(***************************************************************************)
(* Text.  A text is a sequence of pieces; every piece is either a single   *)
(* character or a run of characters holding neither a digit nor a '.', so  *)
(* that a search for digits or for '.' ('200' in message, '.' in name) is  *)
(* a search for a subsequence.                                             *)
(***************************************************************************)
Digits == <<"0", "1", "2", "3", "4", "5", "6", "7", "8", "9">>

IsDigit(c) == \E i \in 1..10 : Digits[i] = c

DigitValue(c) == (CHOOSE i \in 1..10 : Digits[i] = c) - 1

\* str(n) for 0 <= n
RECURSIVE Str(_)
Str(n) == IF n < 10 THEN <<Digits[n + 1]>>
          ELSE Str(n \div 10) \o <<Digits[(n % 10) + 1]>>

\* Python's  sub in s  for strings
Contains(sub, s) ==
    \E i \in 1..(Len(s) - Len(sub) + 1) : SubSeq(s, i, i + Len(sub) - 1) = sub

\* Spelling of the names used as path segments.
Chars(name) ==
    CASE name = "index.html" -> <<"index", ".", "html">>
      [] name = "index.htm"  -> <<"index", ".", "htm">>
      [] name = "logo.png"   -> <<"logo", ".", "png">>
      [] name = "app"        -> <<"app">>
      [] name = "settings"   -> <<"settings">>
      [] name = "200"        -> <<"2", "0", "0">>
      [] name = ".."         -> <<".", ".">>
      [] name = ""           -> <<>>
      [] name = "v=1"        -> <<"v=", "1">>
      [] name = "GET"        -> <<"GET">>
      [] name = "HEAD"       -> <<"HEAD">>
      [] name = "OPTIONS"    -> <<"OPTIONS">>
      [] name = "HTTP/1.1"   -> <<"HTTP/", "1", ".", "1">>
      [] name = "HTTP/0.9"   -> <<"HTTP/", "0", ".", "9">>

\* '/'.join of the segments after a leading '/'
RECURSIVE JoinSegs(_)
JoinSegs(segs) ==
    IF segs = <<>> THEN <<>>
    ELSE <<"/">> \o Chars(Head(segs)) \o JoinSegs(Tail(segs))

(***************************************************************************)
(* Requests.  A request target is its path, as the segments between the    *)
(* '/' characters (a trailing '/' leaves an empty last segment; '/' alone  *)
(* is one empty segment), and its query string.                            *)
(***************************************************************************)
SegNames == {"index.html", "app", "settings", "logo.png", "200", ".."}

\* the names tried as the leading segments of a longer path
DirNames == {"app", ".."}

Commands == {"GET", "HEAD", "OPTIONS"}

Versions == {"HTTP/0.9", "HTTP/1.1"}

Queries == {"", "v=1"}

\* value of a header the request does not carry
NoHeader == <<>>

RECURSIVE PathsOfLen(_)
PathsOfLen(n) ==
    IF n = 1 THEN {<<s>> : s \in SegNames \cup {""}}
    ELSE {<<s>> \o p : s \in DirNames, p \in PathsOfLen(n - 1)}

Paths == UNION {PathsOfLen(n) : n \in 1..MaxDepth}

Targets == [segs : Paths, query : Queries]

\* ims: <<the time of a well-formed If-Modified-Since date in GMT>>, or
\* NoHeader; inm: an If-None-Match header is sent
Requests ==
    [command : Commands, target : Targets, version : Versions,
     ims : {NoHeader} \cup {<<t>> : t \in 0..MaxTime}, inm : BOOLEAN]

\* the text of the request target
TargetChars(t) ==
    JoinSegs(t.segs) \o (IF t.query = "" THEN <<>> ELSE <<"?">> \o Chars(t.query))

\* self.requestline: an HTTP/0.9 request line has two words, no version
RequestLine(r) ==
    Chars(r.command) \o <<" ">> \o TargetChars(r.target)
      \o (IF r.version = "HTTP/0.9" THEN <<>> ELSE <<" ">> \o Chars(r.version))

RootIndex == [segs |-> <<"index.html">>, query |-> ""]

(***************************************************************************)
(* The served directory.                                                   *)
(***************************************************************************)
FsPaths == {<<"index.html">>, <<"app">>, <<"app", "index.html">>, <<"logo.png">>}

Kinds == {"absent", "file", "dir", "unreadable"}

\* An entry below "app" exists only while "app" is a directory; only
\* index.html is ever a directory of its own or unreadable.
FsOk(f) ==
    /\ f[<<"app">>] \in {"absent", "file", "dir"}
    /\ f[<<"app", "index.html">>] \in {"absent", "file"}
    /\ f[<<"app", "index.html">>] = "file" => f[<<"app">>] = "dir"
    /\ f[<<"logo.png">>] \in {"absent", "file"}

FileSystems == {f \in [FsPaths -> Kinds] : FsOk(f)}

\* kind of the entry a list of names leads to from the served directory
KindOf(f, words) ==
    IF words = <<>> THEN "dir"
    ELSE IF words \in FsPaths THEN f[words]
    ELSE "absent"

(***************************************************************************)
(* SimpleHTTPRequestHandler.translate_path and the os.path tests.          *)
(***************************************************************************)
\* posixpath.normpath of an absolute path, as the list of its names
RECURSIVE NormPath(_, _)
NormPath(segs, acc) ==
    IF segs = <<>> THEN acc
    ELSE LET s == Head(segs) IN
         IF s = "" \/ s = "." THEN NormPath(Tail(segs), acc)
         ELSE IF s = ".."
              THEN NormPath(Tail(segs),
                            IF acc = <<>> THEN acc ELSE SubSeq(acc, 1, Len(acc) - 1))
              ELSE NormPath(Tail(segs), Append(acc, s))

\* the query is abandoned; an explicit trailing '/' is kept
translate_path(t) ==
    [words |-> NormPath(t.segs, <<>>), slash |-> t.segs[Len(t.segs)] = ""]

exists(f, p) ==
    IF p.slash THEN KindOf(f, p.words) = "dir" ELSE KindOf(f, p.words) # "absent"

isdir(f, p) == KindOf(f, p.words) = "dir"

isfile(f, p) ==
    IF p.slash THEN FALSE ELSE KindOf(f, p.words) \in {"file", "unreadable"}

\* os.path.basename: what follows the last '/'
basename(segs) == segs[Len(segs)]

(***************************************************************************)
(* The handler while it answers one request.                               *)
(*   server, version (request_version), command, path (self.path),         *)
(*   requestline, buffer (_headers_buffer), and what it has produced:      *)
(*   status (the code given to send_response), statusline and headers      *)
(*   (what was written to the connection), body, file (what send_head      *)
(*   returned), log (the lines printed).                                   *)
(***************************************************************************)
NoBody == <<>>

NoFile == <<>>

FileBytes(words) == <<"file", words>>

Listing(words) == <<"listing", words>>

ErrorPage(code) == <<"error", code>>

CORSOrigin == <<"Access-Control-Allow-Origin", "*">>

NewHandler(server, r) ==
    [server |-> server, version |-> "HTTP/0.9", command |-> "",
     path |-> r.target, requestline |-> RequestLine(r),
     ims |-> r.ims, inm |-> r.inm,
     buffer |-> {}, status |-> 0, statusline |-> FALSE, headers |-> {},
     body |-> NoBody, file |-> NoFile, log |-> <<>>]

\* DebugHTTPRequestHandler.log_message: the colour of a line
Debug_color(message) ==
    IF Contains(<<"2", "0", "0">>, message) THEN "green"
    ELSE IF Contains(<<"4", "0", "4">>, message) THEN "red"
    ELSE IF Contains(<<"3", "0", "4">>, message) THEN "yellow"
    ELSE "blue"

Debug_log_message(h, message) ==
    [h EXCEPT !.log = Append(@, [text |-> message, color |-> Debug_color(message)])]

SPA_log_message(h, message) ==
    [h EXCEPT !.log = Append(@, [text |-> message, color |-> "plain"])]

log_message(h, message) ==
    IF h.server = "debug" THEN Debug_log_message(h, message)
    ELSE SPA_log_message(h, message)

log_request(h, code) ==
    log_message(h, <<"\"">> \o h.requestline \o <<"\" ">> \o Str(code) \o <<" -">>)

log_error(h, code, message) ==
    log_message(h, <<"code ">> \o Str(code) \o <<", message ">> \o message)

send_header(h, keyword, value) ==
    IF h.version # "HTTP/0.9"
    THEN [h EXCEPT !.buffer = @ \cup {<<keyword, value>>}]
    ELSE h

send_response_only(h, code) ==
    IF h.version # "HTTP/0.9"
    THEN [h EXCEPT !.status = code, !.statusline = TRUE]
    ELSE [h EXCEPT !.status = code]

send_response(h, code) ==
    send_header(send_header(send_response_only(log_request(h, code), code),
                            "Server", "SimpleHTTP"), "Date", "now")

\* BaseHTTPRequestHandler.end_headers: the buffer goes out on the connection
Base_end_headers(h) ==
    IF h.version # "HTTP/0.9"
    THEN [h EXCEPT !.headers = @ \cup h.buffer, !.buffer = {}]
    ELSE h

\* variant: the origin header is left out
SPA_end_headers_NoOrigin(h) ==
    Base_end_headers(
        send_header(send_header(h,
            "Access-Control-Allow-Methods", "GET, POST, OPTIONS"),
            "Access-Control-Allow-Headers", "Content-Type"))

SPA_end_headers(h) ==
    Base_end_headers(
        send_header(send_header(send_header(h,
            "Access-Control-Allow-Origin", "*"),
            "Access-Control-Allow-Methods", "GET, POST, OPTIONS"),
            "Access-Control-Allow-Headers", "Content-Type"))

Debug_end_headers(h) ==
    Base_end_headers(
        send_header(send_header(send_header(send_header(h,
            "Access-Control-Allow-Origin", "*"),
            "Access-Control-Allow-Methods", "GET, POST, PUT, DELETE, OPTIONS"),
            "Access-Control-Allow-Headers", "Content-Type, Authorization"),
            "Cache-Control", "no-cache, no-store, must-revalidate"))

end_headers(h) ==
    IF h.server = "debug" THEN Debug_end_headers(h) ELSE SPA_end_headers(h)

\* the body is written unless the request was a HEAD
send_error(h, code, message) ==
    LET h1 == send_header(send_response(log_error(h, code, message), code),
                          "Connection", "close")
        h2 == end_headers(send_header(send_header(h1,
                  "Content-Type", "text/html;charset=utf-8"),
                  "Content-Length", "n"))
    IN  IF h.command # "HEAD" THEN [h2 EXCEPT !.body = ErrorPage(code)] ELSE h2

(***************************************************************************)
(* SimpleHTTPRequestHandler: send_head, list_directory, do_GET, do_HEAD.   *)
(***************************************************************************)
list_directory(h, p) ==
    [end_headers(send_header(send_header(send_response(h, 200),
         "Content-type", "text/html"), "Content-Length", "n"))
     EXCEPT !.file = Listing(p.words)]

\* the file is opened, then a fresh If-Modified-Since (with no
\* If-None-Match) is answered 304, anything else 200 with the file
send_file(h, f, mt, p) ==
    IF KindOf(f, p.words) # "file"
    THEN send_error(h, 404, <<"File not found">>)
    ELSE IF h.ims # NoHeader /\ ~h.inm /\ mt <= h.ims[1]
    THEN end_headers(send_response(h, 304))
    ELSE [end_headers(send_header(send_header(send_header(send_response(h, 200),
              "Content-type", "guessed"), "Content-Length", "n"),
              "Last-Modified", "mtime"))
          EXCEPT !.file = FileBytes(p.words)]

send_head(h, f, mt) ==
    LET p == translate_path(h.path)
        index_html == [words |-> Append(p.words, "index.html"), slash |-> FALSE]
        index_htm == [words |-> Append(p.words, "index.htm"), slash |-> FALSE]
    IN  IF isdir(f, p)
        THEN IF ~p.slash
             THEN end_headers(send_header(send_header(send_response(h, 301),
                      "Location", <<h.path, "/">>), "Content-Length", "0"))
             ELSE IF isfile(f, index_html) THEN send_file(h, f, mt, index_html)
             ELSE IF isfile(f, index_htm) THEN send_file(h, f, mt, index_htm)
             ELSE list_directory(h, p)
        ELSE IF p.slash
             THEN send_error(h, 404, <<"File not found">>)
             ELSE send_file(h, f, mt, p)

\* copyfile(f, self.wfile)
Simple_do_GET(h, f, mt) ==
    LET h1 == send_head(h, f, mt)
    IN  IF h1.file # NoFile THEN [h1 EXCEPT !.body = h1.file] ELSE h1

Simple_do_HEAD(h, f, mt) == send_head(h, f, mt)

(***************************************************************************)
(* spa-server.py: SPAHandler.do_GET                                        *)
(***************************************************************************)
\* variant: a missing route is handed to the file handler as it came
SPA_do_GET_NoRewrite(h, f, mt) ==
    LET path == h.path.segs
    IN  IF path = <<"">>
        THEN Simple_do_GET([h EXCEPT !.path = RootIndex], f, mt)
        ELSE Simple_do_GET(h, f, mt)

\* variant: the existence test comes before the extension test
SPA_do_GET_ExistsFirst(h, f, mt) ==
    LET path == h.path.segs
        file_path == translate_path([segs |-> path, query |-> ""])
    IN  IF path = <<"">>
        THEN Simple_do_GET([h EXCEPT !.path = RootIndex], f, mt)
        ELSE IF ~exists(f, file_path)
        THEN Simple_do_GET([h EXCEPT !.path = RootIndex], f, mt)
        ELSE Simple_do_GET(h, f, mt)

\* variant: '/' is left to the file handler's own directory handling
SPA_do_GET_NoRootCase(h, f, mt) ==
    LET path == h.path.segs
        file_path == translate_path([segs |-> path, query |-> ""])
    IN  IF Contains(<<".">>, Chars(basename(path)))
        THEN Simple_do_GET(h, f, mt)
        ELSE IF ~exists(f, file_path)
        THEN Simple_do_GET([h EXCEPT !.path = RootIndex], f, mt)
        ELSE Simple_do_GET(h, f, mt)

SPA_do_GET(h, f, mt) ==
    LET path == h.path.segs
        file_path == translate_path([segs |-> path, query |-> ""])
    IN  IF path = <<"">>
        THEN Simple_do_GET([h EXCEPT !.path = RootIndex], f, mt)
        ELSE IF Contains(<<".">>, Chars(basename(path)))
        THEN Simple_do_GET(h, f, mt)
        ELSE IF ~exists(f, file_path)
        THEN Simple_do_GET([h EXCEPT !.path = RootIndex], f, mt)
        ELSE Simple_do_GET(h, f, mt)

(***************************************************************************)
(* debug_server.py: DebugHTTPRequestHandler.do_OPTIONS                     *)
(***************************************************************************)
\* variant: the preflight is answered through send_error
Debug_do_OPTIONS_AsError(h) == send_error(h, 200, <<"OK">>)

Debug_do_OPTIONS(h) == end_headers(send_response(h, 200))

(***************************************************************************)
(* BaseHTTPRequestHandler: parse_request and handle_one_request.           *)
(***************************************************************************)
\* the methods the handler class of a server has
HasMethod(server, command) ==
    \/ command \in {"GET", "HEAD"}
    \/ server = "debug" /\ command = "OPTIONS"

handle_one_request(server, r, f, mt) ==
    LET h0 == NewHandler(server, r)
        \* a request line of three words sets request_version
        h1 == IF r.version # "HTTP/0.9" THEN [h0 EXCEPT !.version = r.version]
              ELSE h0
        h2 == [h1 EXCEPT !.command = r.command]
    IN  IF r.version = "HTTP/0.9" /\ r.command # "GET"
        THEN send_error(h1, 400, <<"Bad HTTP/", "0", ".", "9", " request type ('">>
                                   \o Chars(r.command) \o <<"')">>)
        ELSE IF ~HasMethod(server, r.command)
        THEN send_error(h2, 501, <<"Unsupported method ('">>
                                   \o Chars(r.command) \o <<"')">>)
        ELSE IF r.command = "OPTIONS" THEN Debug_do_OPTIONS(h2)
        ELSE IF r.command = "HEAD" THEN Simple_do_HEAD(h2, f, mt)
        ELSE IF server = "spa" THEN SPA_do_GET(h2, f, mt)
        ELSE Simple_do_GET(h2, f, mt)

\* what the client and the console see of an answered request
Response(h) ==
    [server |-> h.server, status |-> h.status, statusline |-> h.statusline,
     headers |-> h.headers, body |-> h.body, log |-> h.log, path |-> h.path]

(***************************************************************************)
(* Command lines, ports and directories of a program run.                  *)
(***************************************************************************)
\* debug_server.py: port = 8080
DebugDefaultPort == 8080
\* spa-server.py: run_server(port=8000)
SPADefaultPort == 8000
\* find_available_port(start_port, max_attempts=100)
max_attempts == 100

\* the directory the program is started in
StartDir == "start"

\* socket.bind accepts the ports 0..65535 and raises OverflowError otherwise
ValidPort(q) == 0 <= q /\ q <= 65535

\* texts given as the port argument
PortArgs == {<<"8", "0", "8", "0">>, <<"6", "5", "5", "0", "0">>,
             <<"8", "0", "a">>, <<"abc">>, <<"-", "1">>}

\* names given as the directory argument, and what each is on disk
DirArgs == {"site", "missing", "notes.txt"}

DirKind(d) ==
    CASE d = "."         -> "dir"
      [] d = "site"      -> "dir"
      [] d = "notes.txt" -> "file"
      [] d = "missing"   -> "absent"

\* sys.argv[1:]
CommandLines ==
    {<<>>} \cup {<<a>> : a \in PortArgs} \cup {<<a, d>> : a \in PortArgs, d \in DirArgs}

\* int(text): an optional sign, then one or more digits; anything else
\* raises ValueError
IntBody(text) ==
    IF text # <<>> /\ text[1] \in {"-", "+"} THEN Tail(text) ELSE text

IntOk(text) ==
    /\ IntBody(text) # <<>>
    /\ \A i \in 1..Len(IntBody(text)) : IsDigit(IntBody(text)[i])

RECURSIVE DigitsValue(_, _)
DigitsValue(ds, acc) ==
    IF ds = <<>> THEN acc
    ELSE DigitsValue(Tail(ds), 10 * acc + DigitValue(Head(ds)))

IntVal(text) ==
    IF text[1] = "-" THEN 0 - DigitsValue(IntBody(text), 0)
    ELSE DigitsValue(IntBody(text), 0)

\* debug_server.py: directory = "." unless argument 2 is given
Directory(args) == IF Len(args) > 1 THEN args[2] ELSE "."

\* the port a command line asks for (the default when it gives none)
RequestedPort(program, args) ==
    IF Len(args) > 0 /\ IntOk(args[1]) THEN IntVal(args[1])
    ELSE IF program = "debug" THEN DebugDefaultPort ELSE SPADefaultPort

\* is_port_available(port): bind on a fresh socket succeeds
is_port_available(q, held) == q \notin held

\* variant: one port too many is scanned
ScanEnd_OneMore(start_port) == start_port + max_attempts + 1

\* find_available_port: range(start_port, start_port + max_attempts)
ScanEnd(start_port) == start_port + max_attempts

\* variant: the directory is not restored
finally_chdir_Stay(orig, current) == current

\* main's finally block: os.chdir(original_dir)
finally_chdir(orig, current) == orig

\* os.chdir(directory) from the directory the program is in
chdir_to(current, d) == IF d = "." THEN current ELSE d

\* ports other processes hold when the program starts: a run of k ports
\* from the requested one, or such a run with its second port free
RunLens == {0, 1, 3, 99, 100}

BusyRun(b, k) == {q \in b..(b + k - 1) : ValidPort(q)}

BusySets(b) == {BusyRun(b, k) : k \in RunLens} \cup {BusyRun(b, 3) \ {b + 1}}

(***************************************************************************)
(* A running server: serve_forever answers one request at a time.          *)
(***************************************************************************)
NoReq == <<>>

NoResp == <<>>

InitServe ==
    /\ fsys \in FileSystems
    /\ mtime \in 0..MaxTime
    /\ req = NoReq
    /\ resp = NoResp
    /\ prog \in {"debug", "spa"}
    /\ argv = <<>>
    /\ pc = "serving"
    /\ port = IF prog = "debug" THEN DebugDefaultPort ELSE SPADefaultPort
    /\ scan = port
    /\ busy = {}
    /\ busy0 = {}
    /\ cwd = StartDir
    /\ original_dir = StartDir
    /\ listening = {port}
    /\ printed = {port}
    /\ exitcode = {}
    /\ hist = [chdir |-> prog = "debug", listened |-> TRUE, served |-> TRUE,
               env |-> 0, touched |-> {}, stop |-> ""]

\* the SPA server answers a request
SPAServe ==
    /\ prog = "spa" /\ pc = "serving"
    /\ req = NoReq
    /\ \E r \in Requests :
         /\ req' = [server |-> "spa", r |-> r]
         /\ resp' = Response(handle_one_request("spa", r, fsys, mtime))
    /\ UNCHANGED <<fsys, mtime>>
    /\ UNCHANGED runVars

\* the debug server answers a request
DebugServe ==
    /\ prog = "debug" /\ pc = "serving"
    /\ req = NoReq
    /\ \E r \in Requests :
         /\ req' = [server |-> "debug", r |-> r]
         /\ resp' = Response(handle_one_request("debug", r, fsys, mtime))
    /\ UNCHANGED <<fsys, mtime>>
    /\ UNCHANGED runVars

\* the connection is closed and the server is back in accept
NextRequest ==
    /\ req # NoReq
    /\ req' = NoReq
    /\ resp' = NoResp
    /\ UNCHANGED <<fsys, mtime>>
    /\ UNCHANGED runVars

\* between two requests the developer edits the served directory
EditFiles ==
    /\ req = NoReq
    /\ \E f \in FileSystems, t \in mtime..MaxTime :
         /\ <<f, t>> # <<fsys, mtime>>
         /\ fsys' = f
         /\ mtime' = t
    /\ UNCHANGED <<req, resp>>
    /\ UNCHANGED runVars

NextServe == SPAServe \/ DebugServe \/ NextRequest \/ EditFiles

SpecServe == InitServe /\ [][NextServe]_vars

(***************************************************************************)
(* One run of a program.                                                   *)
(***************************************************************************)
Init ==
    /\ fsys = [q \in FsPaths |-> "absent"]
    /\ mtime = 0
    /\ req = NoReq
    /\ resp = NoResp
    /\ prog \in {"debug", "spa"}
    /\ argv \in CommandLines
    /\ pc = "start"
    /\ port = IF prog = "debug" THEN DebugDefaultPort ELSE SPADefaultPort
    /\ scan = port
    /\ busy0 \in BusySets(RequestedPort(prog, argv))
    /\ busy = busy0
    /\ cwd = StartDir
    /\ original_dir = StartDir
    /\ listening = {}
    /\ printed = {}
    /\ exitcode = {}
    /\ hist = [chdir |-> FALSE, listened |-> FALSE, served |-> FALSE, env |-> 0,
               touched |-> busy0, stop |-> ""]

\* the process ends with this status; why is kept in hist.stop
Exit(code, why) ==
    /\ pc' = "exited"
    /\ exitcode' = {code}
    /\ listening' = {}
    /\ hist' = [hist EXCEPT !.stop = why]

\* variant: a usage error ends the process with status 0
DebugParseArgs_ExitZero ==
    /\ prog = "debug" /\ pc = "start"
    /\ IF Len(argv) > 0 /\ ~IntOk(argv[1])
       THEN Exit(0, "badport") /\ UNCHANGED port
       ELSE IF Len(argv) > 1 /\ DirKind(argv[2]) = "absent"
       THEN Exit(0, "baddir") /\ port' = IntVal(argv[1])
       ELSE /\ port' = IF Len(argv) > 0 THEN IntVal(argv[1]) ELSE port
            /\ pc' = "check"
            /\ UNCHANGED <<exitcode, listening, hist>>
    /\ UNCHANGED <<prog, argv, scan, busy, busy0, cwd, original_dir, printed>>
    /\ UNCHANGED serveVars

\* main, lines 141-155: the command line is read
DebugParseArgs ==
    /\ prog = "debug" /\ pc = "start"
    /\ IF Len(argv) > 0 /\ ~IntOk(argv[1])
       THEN Exit(1, "badport") /\ UNCHANGED port
       ELSE IF Len(argv) > 1 /\ DirKind(argv[2]) = "absent"
       THEN Exit(1, "baddir") /\ port' = IntVal(argv[1])
       ELSE /\ port' = IF Len(argv) > 0 THEN IntVal(argv[1]) ELSE port
            /\ pc' = "check"
            /\ UNCHANGED <<exitcode, listening, hist>>
    /\ UNCHANGED <<prog, argv, scan, busy, busy0, cwd, original_dir, printed>>
    /\ UNCHANGED serveVars

\* main, line 158: is the requested port free
DebugCheckPort ==
    /\ prog = "debug" /\ pc = "check"
    /\ IF ~ValidPort(port)
       THEN Exit(1, "overflow") /\ UNCHANGED scan
       ELSE IF is_port_available(port, busy)
       THEN pc' = "chdir" /\ UNCHANGED <<scan, exitcode, listening, hist>>
       ELSE pc' = "scan" /\ scan' = port /\ UNCHANGED <<exitcode, listening, hist>>
    /\ UNCHANGED <<prog, argv, port, busy, busy0, cwd, original_dir, printed>>
    /\ UNCHANGED serveVars

\* find_available_port: one turn of its loop, and main's use of the result
DebugScan ==
    /\ prog = "debug" /\ pc = "scan"
    /\ IF scan >= ScanEnd(port)
       THEN Exit(1, "noport") /\ UNCHANGED <<port, scan>>
       ELSE IF ~ValidPort(scan)
       THEN Exit(1, "overflow") /\ UNCHANGED <<port, scan>>
       ELSE IF is_port_available(scan, busy)
       THEN IF scan # 0
            THEN /\ port' = scan
                 /\ pc' = "chdir"
                 /\ UNCHANGED <<scan, exitcode, listening, hist>>
            ELSE Exit(1, "noport") /\ UNCHANGED <<port, scan>>
       ELSE /\ scan' = scan + 1
            /\ UNCHANGED <<pc, port, exitcode, listening, hist>>
    /\ UNCHANGED <<prog, argv, busy, busy0, cwd, original_dir, printed>>
    /\ UNCHANGED serveVars

\* main, lines 169-170: remember the directory, enter the served one
DebugChdir ==
    /\ prog = "debug" /\ pc = "chdir"
    /\ original_dir' = cwd
    /\ IF DirKind(Directory(argv)) # "dir"
       THEN Exit(1, "chdir") /\ UNCHANGED cwd
       ELSE /\ cwd' = chdir_to(cwd, Directory(argv))
            /\ pc' = "bind"
            /\ hist' = [hist EXCEPT !.chdir = TRUE]
            /\ UNCHANGED <<exitcode, listening>>
    /\ UNCHANGED <<prog, argv, port, scan, busy, busy0, printed>>
    /\ UNCHANGED serveVars

\* main, lines 174-177: HTTPServer(('', port), ...) binds and listens; a
\* port taken meanwhile raises OSError, caught by 'except Exception'
DebugBind ==
    /\ prog = "debug" /\ pc = "bind"
    /\ IF port \in busy
       THEN Exit(0, "bind") /\ cwd' = finally_chdir(original_dir, cwd)
       ELSE /\ listening' = {port}
            /\ pc' = "info"
            /\ hist' = [hist EXCEPT !.listened = TRUE]
            /\ UNCHANGED <<exitcode, cwd>>
    /\ UNCHANGED <<prog, argv, port, scan, busy, busy0, original_dir, printed>>
    /\ UNCHANGED serveVars

\* main, lines 180-183: print_server_info, then serve_forever
DebugInfo ==
    /\ prog = "debug" /\ pc = "info"
    /\ printed' = {port}
    /\ pc' = "serving"
    /\ hist' = [hist EXCEPT !.served = TRUE]
    /\ UNCHANGED <<prog, argv, port, scan, busy, busy0, cwd, original_dir,
                   listening, exitcode>>
    /\ UNCHANGED serveVars

\* Ctrl+C: inside the try block it is caught and the directory restored;
\* before the try block it ends the process
DebugInterrupt ==
    /\ prog = "debug" /\ pc # "exited"
    /\ IF pc \in {"bind", "info", "serving"}
       THEN Exit(0, "interrupt") /\ cwd' = finally_chdir(original_dir, cwd)
       ELSE Exit(130, "interrupt") /\ UNCHANGED cwd
    /\ UNCHANGED <<prog, argv, port, scan, busy, busy0, original_dir, printed>>
    /\ UNCHANGED serveVars

\* serve_forever raises: 'except Exception' prints it, finally restores
DebugServerError ==
    /\ prog = "debug" /\ pc = "serving"
    /\ Exit(0, "error")
    /\ cwd' = finally_chdir(original_dir, cwd)
    /\ UNCHANGED <<prog, argv, port, scan, busy, busy0, original_dir, printed>>
    /\ UNCHANGED serveVars

\* spa-server.py, line 70: port = int(sys.argv[1]) or 8000
SPAParseArgs ==
    /\ prog = "spa" /\ pc = "start"
    /\ IF Len(argv) > 0 /\ ~IntOk(argv[1])
       THEN Exit(1, "badport") /\ UNCHANGED port
       ELSE /\ port' = IF Len(argv) > 0 THEN IntVal(argv[1]) ELSE port
            /\ pc' = "bind"
            /\ UNCHANGED <<exitcode, listening, hist>>
    /\ UNCHANGED <<prog, argv, scan, busy, busy0, cwd, original_dir, printed>>
    /\ UNCHANGED serveVars

\* run_server, line 56: TCPServer(("", port), handler); nothing catches
\* the error of a failed bind
SPABind ==
    /\ prog = "spa" /\ pc = "bind"
    /\ IF ~ValidPort(port)
       THEN Exit(1, "overflow")
       ELSE IF port \in busy
       THEN Exit(1, "bind")
       ELSE /\ listening' = {port}
            /\ pc' = "info"
            /\ hist' = [hist EXCEPT !.listened = TRUE]
            /\ UNCHANGED exitcode
    /\ UNCHANGED <<prog, argv, port, scan, busy, busy0, cwd, original_dir, printed>>
    /\ UNCHANGED serveVars

\* run_server, lines 57-64: the banner, then serve_forever
SPAInfo ==
    /\ prog = "spa" /\ pc = "info"
    /\ printed' = {port}
    /\ pc' = "serving"
    /\ hist' = [hist EXCEPT !.served = TRUE]
    /\ UNCHANGED <<prog, argv, port, scan, busy, busy0, cwd, original_dir,
                   listening, exitcode>>
    /\ UNCHANGED serveVars

\* Ctrl+C is caught only around serve_forever
SPAInterrupt ==
    /\ prog = "spa" /\ pc # "exited"
    /\ IF pc = "serving" THEN Exit(0, "interrupt") ELSE Exit(130, "interrupt")
    /\ UNCHANGED <<prog, argv, port, scan, busy, busy0, cwd, original_dir, printed>>
    /\ UNCHANGED serveVars

\* serve_forever raises: nothing catches it
SPAServerError ==
    /\ prog = "spa" /\ pc = "serving"
    /\ Exit(1, "error")
    /\ UNCHANGED <<prog, argv, port, scan, busy, busy0, cwd, original_dir, printed>>
    /\ UNCHANGED serveVars

\* the ports another process may take or release while the program runs
EnvPorts == {q \in {port, port + 1, scan, scan + 1} : ValidPort(q)}

\* another process binds a free port
EnvTake ==
    /\ pc # "exited" /\ hist.env < MaxEnvSteps
    /\ \E q \in EnvPorts \ (busy \cup listening) :
         /\ busy' = busy \cup {q}
         /\ hist' = [hist EXCEPT !.env = @ + 1, !.touched = @ \cup {q}]
    /\ UNCHANGED <<prog, argv, pc, port, scan, busy0, cwd, original_dir,
                   listening, printed, exitcode>>
    /\ UNCHANGED serveVars

\* another process closes a socket
EnvRelease ==
    /\ pc # "exited" /\ hist.env < MaxEnvSteps
    /\ \E q \in EnvPorts \cap busy :
         /\ busy' = busy \ {q}
         /\ hist' = [hist EXCEPT !.env = @ + 1]
    /\ UNCHANGED <<prog, argv, pc, port, scan, busy0, cwd, original_dir,
                   listening, printed, exitcode>>
    /\ UNCHANGED serveVars

NextQuiet ==
    \/ DebugParseArgs \/ DebugCheckPort \/ DebugScan \/ DebugChdir \/ DebugBind
    \/ DebugInfo \/ DebugInterrupt \/ DebugServerError
    \/ SPAParseArgs \/ SPABind \/ SPAInfo \/ SPAInterrupt \/ SPAServerError

Next == NextQuiet \/ EnvTake \/ EnvRelease

Spec == Init /\ [][Next]_vars

SpecQuiet == Init /\ [][NextQuiet]_vars

(***************************************************************************)
(* Properties of the answers (checked under SpecServe).                    *)
(***************************************************************************)
IndexPath == <<"index.html">>

IndexBytes == FileBytes(IndexPath)

Answered(server, command) ==
    req # NoReq /\ req.server = server /\ req.r.command = command

Dotted(segs) == Contains(<<".">>, Chars(basename(segs)))

\* the request is conditional and the file has not changed since its date
NotModifiedSince(r) == r.ims # NoHeader /\ ~r.inm /\ mtime <= r.ims[1]

\* a GET of the SPA server for a path other than '/', with no '.' in its
\* last segment, that resolves to nothing on disk
IsSPARoute ==
    /\ Answered("spa", "GET")
    /\ req.r.target.segs # <<"">>
    /\ ~Dotted(req.r.target.segs)
    /\ ~exists(fsys, translate_path(req.r.target))

\* C1 as stated: every such request is rewritten to the root index document,
\* and whenever index.html exists the answer is 200 with the bytes of
\* index.html.
C1_Original ==
    IsSPARoute =>
        /\ resp.path = RootIndex
        /\ fsys[IndexPath] # "absent" =>
               resp.status = 200 /\ resp.body = IndexBytes

\* C1 amended: every such request is rewritten to the root index document,
\* whatever its query string; when index.html is a readable regular file the
\* answer is 200 with exactly the bytes of index.html, unless the request
\* carries an If-Modified-Since date (and no If-None-Match) not older than
\* the file, which is answered 304 without a body; the answer's status and
\* body are those of the same request without its query string.
C1_RouteServesIndex ==
    IsSPARoute =>
        /\ resp.path = RootIndex
        /\ (fsys[IndexPath] = "file" /\ ~NotModifiedSince(req.r)) =>
               resp.status = 200 /\ resp.body = IndexBytes
        /\ (fsys[IndexPath] = "file" /\ NotModifiedSince(req.r)) =>
               resp.status = 304 /\ resp.body = NoBody
        /\ LET bare == handle_one_request("spa",
                           [req.r EXCEPT !.target.query = ""], fsys, mtime)
           IN  resp.status = bare.status /\ resp.body = bare.body

\* /app/settings?v=1 with no "app" on disk is answered with index.html
C1_Witness ==
    /\ IsSPARoute
    /\ req.r.target = [segs |-> <<"app", "settings">>, query |-> "v=1"]
    /\ fsys[IndexPath] = "file"
    /\ resp.status = 200
    /\ resp.body = IndexBytes

\* C2: a GET of the SPA server whose last path segment holds a '.' is never
\* rewritten (self.path stays the requested target), and when its file does
\* not exist the answer is 404 and not the index document.
C2_DottedNeverRewritten ==
    (Answered("spa", "GET") /\ Dotted(req.r.target.segs)) =>
        /\ resp.path = req.r.target
        /\ ~exists(fsys, translate_path(req.r.target)) =>
               resp.status = 404 /\ resp.body # IndexBytes

\* /logo.png with no logo.png on disk, index.html present: 404
C2_Witness ==
    /\ Answered("spa", "GET")
    /\ req.r.target.segs = <<"logo.png">>
    /\ fsys[<<"logo.png">>] = "absent"
    /\ fsys[IndexPath] = "file"
    /\ resp.status = 404
    /\ resp.body = ErrorPage(404)

\* C3 as stated: every response of both servers carries
\* Access-Control-Allow-Origin: *.
C3_Original == req # NoReq => CORSOrigin \in resp.headers

\* C3 amended: every response to a request whose request line carries an
\* HTTP/1.x version carries Access-Control-Allow-Origin: *, for both
\* servers, every method and every outcome; the response to a request line
\* without a version (HTTP/0.9) has neither status line nor headers.
C3_CORSOnVersionedRequests ==
    req # NoReq =>
        IF req.r.version # "HTTP/0.9"
        THEN resp.statusline /\ CORSOrigin \in resp.headers
        ELSE ~resp.statusline /\ resp.headers = {}

\* an error response of the SPA server to an unsupported method carries it
C3_Witness ==
    /\ Answered("spa", "OPTIONS")
    /\ req.r.version = "HTTP/1.1"
    /\ resp.status = 501
    /\ CORSOrigin \in resp.headers

\* C5: an OPTIONS request to the debug server (a request line with an HTTP
\* version; HTTP/0.9 knows GET only) is answered 200 with an empty body,
\* whatever its path and whether or not the path names a file.
C5_OptionsEmpty200 ==
    (Answered("debug", "OPTIONS") /\ req.r.version # "HTTP/0.9") =>
        resp.status = 200 /\ resp.body = NoBody

\* OPTIONS for a path that names nothing on disk
C5_Witness ==
    /\ Answered("debug", "OPTIONS")
    /\ req.r.version = "HTTP/1.1"
    /\ req.r.target.segs = <<"app", "settings">>
    /\ fsys[<<"app">>] = "absent"
    /\ resp.status = 200
    /\ resp.body = NoBody

\* C6: on the SPA server the answer to GET / has the status and the body of
\* the answer to GET /index.html (same headers, same query), whether
\* index.html is present or not.
C6_RootSameAsIndex ==
    (Answered("spa", "GET") /\ req.r.target.segs = <<"">>) =>
        LET direct == handle_one_request("spa",
                          [req.r EXCEPT !.target.segs = IndexPath], fsys, mtime)
        IN  resp.status = direct.status /\ resp.body = direct.body

\* GET / while index.html is absent: both are 404
C6_Witness ==
    /\ Answered("spa", "GET")
    /\ req.r.target.segs = <<"">>
    /\ fsys[IndexPath] = "absent"
    /\ resp.status = 404

\* the colour the status class of a response calls for
StatusColor(code) ==
    IF 200 <= code /\ code <= 299 THEN "green"
    ELSE IF code = 404 THEN "red"
    ELSE IF code = 304 THEN "yellow"
    ELSE "blue"

\* C10 as stated: every line the debug server logs for a request has the
\* colour of the response's status class, whatever the request line says.
C10_Original ==
    (req # NoReq /\ req.server = "debug") =>
        \A i \in 1..Len(resp.log) : resp.log[i].color = StatusColor(resp.status)

(***************************************************************************)
(* Properties of a program run (checked under Spec and SpecQuiet).         *)
(***************************************************************************)
Min(S) == CHOOSE x \in S : \A y \in S : x <= y

\* the port the debug server was asked for
AskedPort == RequestedPort("debug", argv)

\* the 100 ports from the requested one
HundredPorts == AskedPort..(AskedPort + 99)

\* those of them no other process held when the program started
FreeAtStart == {q \in HundredPorts : ValidPort(q) /\ q \notin busy0}

\* those of them no other process ever held during the run
FreeThroughout == {q \in HundredPorts : ValidPort(q) /\ q \notin hist.touched}

\* C4: when the requested (or default) port is occupied as the debug server
\* starts, the port it goes on with, binds and listens on is the lowest free
\* one of the 100 ports from the requested one, the startup information
\* shows the port of the listening socket, and when none of the 100 is free
\* the program never listens or serves and does not end with status 0.
C4_LowestFreePort ==
    (prog = "debug" /\ AskedPort \in busy0) =>
        /\ pc \in {"chdir", "bind", "info", "serving"} =>
               FreeAtStart # {} /\ port = Min(FreeAtStart)
        /\ listening # {} => listening = {Min(FreeAtStart)}
        /\ pc = "serving" => listening # {} /\ printed = listening
        /\ FreeAtStart = {} =>
               /\ ~hist.listened /\ ~hist.served
               /\ pc = "exited" => 0 \notin exitcode

\* 8080 and the 98 ports after it are taken: the server serves on 8179
C4_Witness ==
    /\ prog = "debug" /\ AskedPort \in busy0
    /\ pc = "serving"
    /\ AskedPort = DebugDefaultPort
    /\ listening = {DebugDefaultPort + 99}
    /\ printed = {DebugDefaultPort + 99}

BadPortArg == Len(argv) > 0 /\ ~IntOk(argv[1])

BadDirArg == prog = "debug" /\ Len(argv) > 1 /\ DirKind(argv[2]) = "absent"

\* C7: with a port argument that is not a number (either program) or a
\* directory argument that does not exist (debug server) the program never
\* changes directory, never listens, and ends with a nonzero status; a
\* server stopped by an interrupt while it serves ends with status 0.
C7_ExitCodes ==
    /\ (BadPortArg \/ BadDirArg) =>
           /\ ~hist.chdir /\ ~hist.listened /\ listening = {}
           /\ pc = "exited" => (exitcode # {} /\ 0 \notin exitcode)
    /\ (pc = "exited" /\ hist.served /\ hist.stop = "interrupt") =>
           exitcode = {0}

\* the debug server given a directory that does not exist has ended with 1
C7_Witness ==
    /\ prog = "debug" /\ BadDirArg /\ ~BadPortArg
    /\ pc = "exited"
    /\ exitcode = {1}
    /\ hist.stop = "baddir"

\* C8: whenever the debug server's main has ended, the working directory is
\* the one the program was started in.
C8_DirectoryRestored ==
    (prog = "debug" /\ pc = "exited") => cwd = StartDir

\* the server had entered "site" and was interrupted while serving
C8_Witness ==
    /\ prog = "debug" /\ pc = "exited"
    /\ Directory(argv) = "site"
    /\ hist.chdir /\ hist.served
    /\ hist.stop = "interrupt"
    /\ cwd = StartDir

\* C9 as stated: the debug server gives up over an occupied port (the scan
\* found nothing, or its own bind failed) only when none of the 100 scanned
\* ports stayed free, other processes taking and releasing ports or not.
C9_Original ==
    (prog = "debug" /\ pc = "exited" /\ hist.stop \in {"noport", "bind"}) =>
        FreeThroughout = {}

====
